---- MODULE Spec2Model ----
(***************************************************************************)
(* Quantum_Notebooks: the circuits of HW5_logic_and_grover (boolean logic  *)
(* with XOR/NOT/AND, the 1-in-3-SAT oracle apply_oracle, the CnX ladder,   *)
(* invert_about_avg and the Grover loop), the measurement-basis helpers of *)
(* the CHSH notebook, and the discretized Hamiltonian and the generator    *)
(* evolve of the particle-in-a-box notebook.                               *)
(*                                                                         *)
(* A circuit is the sequence of gates the notebook's functions append to   *)
(* a QuantumCircuit.  The simulator state is a sparse amplitude vector:    *)
(* the set amp of entries [b, a], one for each basis state b with non-zero *)
(* amplitude (basis states are integers, qubit q is bit q), a an integer,  *)
(* together with the number h of factors 1/sqrt(2) still to be applied:    *)
(* the amplitude of b is a / sqrt(2)^h.                                    *)
(***************************************************************************)
EXTENDS Integers, Sequences, FiniteSets, TLC

VARIABLES pc,          \* position in the notebook's program
          n,           \* the number of input variables x0 .. x(n-1)
          expression,  \* the 1-in-3-SAT expression: a sequence of clauses
          circ,        \* the gates appended to the circuit so far
          raised,      \* the exception that ended the last call, or "none"
          input,       \* the basis state the registers are prepared in
          psi,         \* the simulator state [amp, h]
          t,           \* Grover iterations completed
          outcome,     \* the measured basis state, or -1 before measurement
          ctrls,       \* CnX: the caller's list of control qubits
          clean_aux,   \* CnX: the caller's list of ancilla qubits, or None
          target,      \* CnX: the target qubit
          calls,       \* CnX: <<len(ctrls), len(aux)>> of every call, outermost first
          program,     \* V circuit: the statements of the cell
          ip,          \* V circuit: the next statement of the cell
          qreg,        \* CHSH notebook: the global qreg, or None when not bound
          qbit0,       \* CHSH notebook: first qubit handed to a helper
          qbit1,       \* CHSH notebook: second qubit handed to a helper
          grid,        \* particle in a box: the globals N, t and eps
          hamiltonian, \* particle in a box: the global H, or <<>> before it is set
          evolution,   \* particle in a box: the locals of the generator evolve
          data         \* particle in a box: the frame (t, wave) last yielded

\* the globals of the CHSH notebook and of the particle-in-a-box notebook
bellVars == <<qreg, qbit0, qbit1>>
tiseVars == <<grid, hamiltonian, evolution, data>>

vars == <<pc, n, expression, circ, raised, input, psi, t, outcome, ctrls,
          clean_aux, target, calls, program, ip, bellVars, tiseVars>>

----------------------------------------------------------------------------
(* Bounds of the model *)

NumOrders == 1     \* literal orders a clause is drawn with
MaxLen == 4        \* longest expression handed to apply_oracle when it raises
MaxCtrls == 4      \* most controls handed to CnX
MaxT == 3          \* most Grover iterations
MaxTerms == 2      \* most basis states in a vector handed to invert_about_avg
MaxQubits == 3     \* most qubits of the circuit handed to XW, XV, ZW, ZV
MaxSteps == 4      \* largest num_step handed to evolve
MaxN == 5          \* most grid points of the discretized Hamiltonian
MaxVars == 4       \* most input variables of a clause block

(* Program constants *)

MaxClauses == 3    \* "We only allow at most 3 clauses"
eta == 1           \* particle in a box: eta = 1
charge == 1        \* particle in a box: q = 1

----------------------------------------------------------------------------
(* The notebooks share no state: while one is run the globals of the others *)
(* are not bound.                                                           *)

NoBell == qreg = <<>> /\ qbit0 = -1 /\ qbit1 = -1
NoTise == grid = <<>> /\ hamiltonian = <<>> /\ evolution = <<>> /\ data = <<>>
NoOtherNotebook == NoBell /\ NoTise

----------------------------------------------------------------------------
(* Gates and their action on the simulator state *)

X(q) == [op |-> "x", q |-> <<q>>]
H(q) == [op |-> "h", q |-> <<q>>]
CX(c, tg) == [op |-> "cx", q |-> <<c, tg>>]
CCX(a, b, tg) == [op |-> "ccx", q |-> <<a, b, tg>>]
GateS(q) == [op |-> "s", q |-> <<q>>]
GateT(q) == [op |-> "t", q |-> <<q>>]
GateTdg(q) == [op |-> "tdg", q |-> <<q>>]
Barrier == [op |-> "barrier", q |-> <<>>]
Measure(q) == [op |-> "measure", q |-> <<q>>]

Bit(b, q) == (b \div (2^q)) % 2
Flip(b, q) == IF Bit(b, q) = 0 THEN b + 2^q ELSE b - 2^q

\* x, cx and ccx permute the basis states; each is its own inverse
GateOnBasis(g, b) ==
    IF g.op = "x" THEN Flip(b, g.q[1])
    ELSE IF g.op = "cx" THEN
        IF Bit(b, g.q[1]) = 1 THEN Flip(b, g.q[2]) ELSE b
    ELSE IF g.op = "ccx" THEN
        IF Bit(b, g.q[1]) = 1 /\ Bit(b, g.q[2]) = 1 THEN Flip(b, g.q[3]) ELSE b
    ELSE b

\* the amplitude of basis state b in a set of entries [b, a]
AmpAt(amp, b) ==
    IF \E e \in amp : e.b = b THEN (CHOOSE e \in amp : e.b = b).a ELSE 0

Permute(g, st) ==
    [amp |-> {[b |-> GateOnBasis(g, e.b), a |-> e.a] : e \in st.amp},
     h |-> st.h]

\* amp / sqrt(2)^h is unchanged by halving every amplitude and taking 2 from h
Normalize(st) ==
    IF st.h >= 2 /\ \A e \in st.amp : e.a % 2 = 0
    THEN [amp |-> {[b |-> e.b, a |-> e.a \div 2] : e \in st.amp}, h |-> st.h - 2]
    ELSE st

\* Hadamard: |0> -> (|0> + |1>)/sqrt 2, |1> -> (|0> - |1>)/sqrt 2
Hadamard(q, st) ==
    LET zero(b) == IF Bit(b, q) = 0 THEN b ELSE b - 2^q
        pairs == {zero(e.b) : e \in st.amp}
        new == {[b |-> c, a |-> AmpAt(st.amp, c) + AmpAt(st.amp, c + 2^q)] : c \in pairs}
               \cup {[b |-> c + 2^q, a |-> AmpAt(st.amp, c) - AmpAt(st.amp, c + 2^q)] :
                        c \in pairs}
    IN Normalize([amp |-> {e \in new : e.a # 0}, h |-> st.h + 1])

ApplyGate(g, st) ==
    IF g.op = "h" THEN Hadamard(g.q[1], st)
    ELSE IF g.op \in {"x", "cx", "ccx"} THEN Permute(g, st)
    ELSE st

\* the basis states with non-zero amplitude
Support(st) == {e.b : e \in st.amp}

\* the gates lo..hi of a circuit in order, the first half before the second;
\* the state after the first half is computed before the second half is begun
RECURSIVE RunRange(_, _, _, _)
RunRange(gates, lo, hi, st) ==
    IF lo > hi THEN st
    ELSE IF lo = hi THEN ApplyGate(gates[lo], st)
    ELSE LET mid == (lo + hi) \div 2
             half == RunRange(gates, lo, mid, st)
         IN IF half.amp = {} THEN half ELSE RunRange(gates, mid + 1, hi, half)

\* the simulator applies the circuit's gates in the order they were appended
Run(gates, st) == RunRange(gates, 1, Len(gates), st)

Basis(b) == [amp |-> {[b |-> b, a |-> 1]}, h |-> 0]

----------------------------------------------------------------------------
(* Register layout of the Grover circuit: f_in, f_out, aux in this order *)

FIn(i) == IF i < 0 THEN n + i ELSE i      \* f_in[i], Python indexing
FOut == n                                 \* f_out[0]
Aux(j) == n + 1 + j                       \* aux[j]

InOf(b) == b % (2^n)
OutOf(b) == Bit(b, FOut)
AuxOf(b) == b \div (2^(n + 1))

----------------------------------------------------------------------------
(* apply_oracle *)

\* a slip: the negated literal is read without the X that negates it
MutLiteralGates(literal, k) ==
    IF literal > 0 THEN <<CX(FIn(literal - 1), Aux(k))>>
    ELSE <<CX(FIn(-literal - 1), Aux(k))>>

\* one literal of the parity loop
LiteralGates(literal, k) ==
    IF literal > 0 THEN <<CX(FIn(literal - 1), Aux(k))>>
    ELSE <<X(FIn(-literal - 1)), CX(FIn(-literal - 1), Aux(k))>>

RECURSIVE ParityGates(_, _, _)
ParityGates(clause, i, k) ==
    IF i > Len(clause) THEN <<>>
    ELSE LiteralGates(clause[i], k) \o ParityGates(clause, i + 1, k)

\* a slip: the negated inputs are not flipped back
MutFlipBackGates(clause, i) == <<>>

RECURSIVE FlipBackGates(_, _)
FlipBackGates(clause, i) ==
    IF i > Len(clause) THEN <<>>
    ELSE (IF clause[i] < 0 THEN <<X(FIn(-clause[i] - 1))>> ELSE <<>>)
         \o FlipBackGates(clause, i + 1)

\* a slip: the parity is kept, the flip for "all literals are true" is lost
MutClauseBlock(clause, k, num_clauses) ==
    ParityGates(clause, 1, k)
    \o <<Barrier,
         CCX(FIn(0), FIn(1), Aux(num_clauses)),
         Barrier,
         CCX(FIn(0), FIn(1), Aux(num_clauses))>>
    \o FlipBackGates(clause, 1)
    \o <<Barrier>>

\* the body of the loop over the clauses, for clause k (0-based)
ClauseBlock(clause, k, num_clauses) ==
    ParityGates(clause, 1, k)
    \o <<Barrier,
         CCX(FIn(0), FIn(1), Aux(num_clauses)),
         CCX(FIn(2), Aux(num_clauses), Aux(k)),
         Barrier,
         CCX(FIn(0), FIn(1), Aux(num_clauses))>>
    \o FlipBackGates(clause, 1)
    \o <<Barrier>>

RECURSIVE ClauseLoop(_, _)
ClauseLoop(expr, k) ==
    IF k >= Len(expr) THEN <<>>
    ELSE ClauseBlock(expr[k + 1], k, Len(expr)) \o ClauseLoop(expr, k + 1)

\* first loop: aux[k] becomes g_k
ComputeLoop(expr) == ClauseLoop(expr, 0)

\* a slip: with 3 clauses the scratch ancilla is not flipped back
MutOutputNoRestore(num_clauses) ==
    IF num_clauses = 1 THEN
        [gates |-> <<CX(Aux(0), FOut)>>, raised |-> "none"]
    ELSE IF num_clauses = 2 THEN
        [gates |-> <<CCX(Aux(0), Aux(1), FOut)>>, raised |-> "none"]
    ELSE IF num_clauses = MaxClauses THEN
        [gates |-> <<CCX(Aux(0), Aux(1), Aux(num_clauses)),
                     CCX(Aux(2), Aux(num_clauses), FOut)>>,
         raised |-> "none"]
    ELSE [gates |-> <<>>, raised |-> "ValueError"]

\* a slip: the last branch taken for 3 or more clauses, so nothing raises
MutOutputGates(num_clauses) ==
    IF num_clauses = 1 THEN
        [gates |-> <<CX(Aux(0), FOut)>>, raised |-> "none"]
    ELSE IF num_clauses = 2 THEN
        [gates |-> <<CCX(Aux(0), Aux(1), FOut)>>, raised |-> "none"]
    ELSE IF num_clauses >= MaxClauses THEN
        [gates |-> <<CCX(Aux(0), Aux(1), Aux(num_clauses)),
                     CCX(Aux(2), Aux(num_clauses), FOut),
                     CCX(Aux(0), Aux(1), Aux(num_clauses))>>,
         raised |-> "none"]
    ELSE [gates |-> <<>>, raised |-> "ValueError"]

\* "The formula is satisfied if and only if all auxiliary qubits except
\* aux[num_clauses] are 1": the if/elif chain on num_clauses and its else
OutputGates(num_clauses) ==
    IF num_clauses = 1 THEN
        [gates |-> <<CX(Aux(0), FOut)>>, raised |-> "none"]
    ELSE IF num_clauses = 2 THEN
        [gates |-> <<CCX(Aux(0), Aux(1), FOut)>>, raised |-> "none"]
    ELSE IF num_clauses = MaxClauses THEN
        [gates |-> <<CCX(Aux(0), Aux(1), Aux(num_clauses)),
                     CCX(Aux(2), Aux(num_clauses), FOut),
                     CCX(Aux(0), Aux(1), Aux(num_clauses))>>,
         raised |-> "none"]
    ELSE [gates |-> <<>>, raised |-> "ValueError"]

\* a slip: the second loop is forgotten
MutUncomputeLoop(expr) == <<>>

\* second loop: "same loop as above"
UncomputeLoop(expr) == ClauseLoop(expr, 0)

\* the gates apply_oracle appends, and the exception it ends with
apply_oracle(expr) ==
    LET out == OutputGates(Len(expr))
    IN IF out.raised = "none"
       THEN [gates |-> ComputeLoop(expr) \o out.gates \o <<Barrier>>
                       \o UncomputeLoop(expr),
             raised |-> "none"]
       ELSE [gates |-> ComputeLoop(expr), raised |-> out.raised]

----------------------------------------------------------------------------
(* CnX, CnZ, invert_about_avg, init_grover *)

\* Python's None, as a value no list of qubits equals
None == <<-1>>

\* a gate applied to a register is the gate on each of its qubits in order
OnEach(op, bits) == [i \in 1..Len(bits) |-> [op |-> op, q |-> <<bits[i]>>]]

\* a slip: the ancilla y is computed and never uncomputed
MutLadderGates(a, b, y, inner) == <<CCX(a, b, y)>> \o inner

\* a slip: the Toffoli that computes y before the recursive call is left out
MutLadderNoCompute(a, b, y, inner) == inner \o <<CCX(a, b, y)>>

\* circ.ccx(a,b,y); CnX(...); circ.ccx(a,b,y)
LadderGates(a, b, y, inner) == <<CCX(a, b, y)>> \o inner \o <<CCX(a, b, y)>>

\* len(aux) as the call trace records it; None has no length
AuxLen(aux) == IF aux = None THEN -1 ELSE Len(aux)

\* a slip: the assertion is not made (as under python -O), and the call fails
\* later, in the last branch: in len(None), or in pop() on the empty list
MutNoControls(cs, aux, nq) ==
    [gates |-> <<>>, ctrls |-> cs, aux |-> aux, nq |-> nq,
     raised |-> IF aux = None THEN "TypeError" ELSE "IndexError",
     calls |-> <<<<Len(cs), AuxLen(aux)>>>>]

\* assert len(ctrls) >= 1, 'No control qubits specified': the call ends at
\* the first statement, with nothing appended
NoControls(cs, aux, nq) ==
    [gates |-> <<>>, ctrls |-> cs, aux |-> aux, nq |-> nq,
     raised |-> "AssertionError", calls |-> <<<<Len(cs), AuxLen(aux)>>>>]

\* CnX(circ, ctrls, target, clean_aux) with ctrls a list and clean_aux a list
\* or None, in a circuit of nq qubits: the gates appended, the two lists as
\* the call leaves them (pop and append act on the caller's lists), the
\* qubits of the circuit, the exception the call ends with, and the calls
\* made, this one first.
RECURSIVE CnX(_, _, _, _)
CnX(cs, tg, aux, nq) ==
    IF ~(Len(cs) >= 1) THEN NoControls(cs, aux, nq)
    ELSE IF Len(cs) = 1 THEN
        [gates |-> <<CX(cs[1], tg)>>, ctrls |-> cs, aux |-> aux, nq |-> nq,
         raised |-> "none", calls |-> <<<<Len(cs), AuxLen(aux)>>>>]
    ELSE IF Len(cs) = 2 THEN
        [gates |-> <<CCX(cs[1], cs[2], tg)>>, ctrls |-> cs, aux |-> aux, nq |-> nq,
         raised |-> "none", calls |-> <<<<Len(cs), AuxLen(aux)>>>>]
    ELSE IF aux = None THEN
        \* the message is formatted with len(aux) before a register is made
        [gates |-> <<>>, ctrls |-> cs, aux |-> aux, nq |-> nq,
         raised |-> "TypeError", calls |-> <<<<Len(cs), AuxLen(aux)>>>>]
    ELSE
        LET fresh == Len(aux) # Len(cs) - 2
            \* a new register of len(ctrls)-2 qubits added to the circuit
            list == IF fresh THEN [i \in 1..(Len(cs) - 2) |-> nq + i - 1] ELSE aux
            nq1 == IF fresh THEN nq + Len(cs) - 2 ELSE nq
            a == cs[Len(cs)]
            b == cs[Len(cs) - 1]
            y == list[Len(list)]
            cs1 == Append(SubSeq(cs, 1, Len(cs) - 2), y)
            list1 == SubSeq(list, 1, Len(list) - 1)
            inner == CnX(cs1, tg, list1, nq1)
        IN [gates |-> LadderGates(a, b, y, inner.gates),
            ctrls |-> inner.ctrls,
            aux |-> IF fresh THEN aux ELSE inner.aux,
            nq |-> inner.nq,
            raised |-> inner.raised,
            calls |-> <<<<Len(cs), AuxLen(aux)>>>> \o inner.calls]

\* a slip: the target is not taken to the X basis, so CnZ is CnX
MutCnZ(cs, tg, aux, nq) == CnX(cs, tg, aux, nq).gates

CnZ(cs, tg, aux, nq) == <<H(tg)>> \o CnX(cs, tg, aux, nq).gates \o <<H(tg)>>

AllButLast(bits) == SubSeq(bits, 1, Len(bits) - 1)
Last(bits) == bits[Len(bits)]

\* a slip: the X gates after the controlled Z are forgotten
MutInvertAboutAvg(bits, aux, nq) ==
    OnEach("h", bits) \o OnEach("x", bits) \o <<Barrier>>
    \o CnZ(AllButLast(bits), Last(bits), aux, nq)
    \o <<Barrier>> \o OnEach("h", bits)

\* invert_about_avg(circ, bits, aux): bits[:-1] of a register is a list
invert_about_avg(bits, aux, nq) ==
    OnEach("h", bits) \o OnEach("x", bits) \o <<Barrier>>
    \o CnZ(AllButLast(bits), Last(bits), aux, nq)
    \o <<Barrier>> \o OnEach("x", bits) \o OnEach("h", bits)

\* a slip: f_out is left in |+>, so the oracle marks nothing
MutInitGrover(fin, fout) == OnEach("h", fin) \o OnEach("h", fout)

init_grover(fin, fout) == OnEach("h", fin) \o OnEach("x", fout) \o OnEach("h", fout)

\* measure(circ, q): every qubit of q to a new classical register
measure(q) == OnEach("measure", q)

\* the registers of the grover circuit
f_in == [i \in 1..n |-> FIn(i - 1)]
f_out == <<FOut>>
aux_reg(expr) == [j \in 1..(Len(expr) + 1) |-> Aux(j - 1)]
NumQubits(expr) == n + 1 + Len(expr) + 1

----------------------------------------------------------------------------
(* Expressions *)

AllOrders == <<<<1, 2, 3>>, <<3, 1, 2>>, <<2, 1, 3>>,
               <<2, 3, 1>>, <<1, 3, 2>>, <<3, 2, 1>>>>
Signs == [1..3 -> {1, -1}]

\* clauses of three signed literals over the distinct variables x0, x1, x2
ClauseSet(orders) ==
    {[i \in 1..3 |-> s[i] * AllOrders[o][i]] :
        s \in Signs, o \in 1..(IF orders < 6 THEN orders ELSE 6)}

\* every clause alone; longer expressions with the first NumOrders orders
Expressions ==
    [1..1 -> ClauseSet(Len(AllOrders))]
    \cup UNION {[1..m -> ClauseSet(NumOrders)] : m \in 2..MaxClauses}

Example == <<<<1, 2, -3>>, <<-1, -2, -3>>, <<-1, 2, 3>>>>

----------------------------------------------------------------------------
(* The oracle on a basis state *)

Init ==
    /\ pc = "start"
    /\ n = 3
    /\ expression \in Expressions
    /\ input \in 0..(2^(n + 1) - 1)
    /\ psi = Basis(input)
    /\ circ = <<>>
    /\ raised = "none"
    /\ t = 0
    /\ outcome = -1
    /\ ctrls = <<>>
    /\ clean_aux = <<>>
    /\ target = 0
    /\ calls = <<>>
    /\ NoOtherNotebook
    /\ program = <<>>
    /\ ip = 0

\* apply_oracle(grover, f_in, f_out, aux, n, expression)
ApplyOracle ==
    /\ pc = "start"
    /\ LET r == apply_oracle(expression)
       IN /\ circ' = circ \o r.gates
          /\ raised' = r.raised
          /\ pc' = IF r.raised = "none" THEN "built" ELSE "raised"
    /\ UNCHANGED <<n, expression, input, psi, t, outcome, ctrls, clean_aux, target, calls,
                   program, ip, bellVars, tiseVars>>

\* the simulator runs the circuit on the prepared registers
Execute ==
    /\ pc = "built"
    /\ psi' = Run(circ, psi)
    /\ pc' = "done"
    /\ UNCHANGED <<n, expression, circ, raised, input, t, outcome, ctrls, clean_aux,
                   target, calls, program, ip, bellVars, tiseVars>>

Next == ApplyOracle \/ Execute

Spec == Init /\ [][Next]_vars

----------------------------------------------------------------------------
(* apply_oracle with an unsupported number of clauses *)

RECURSIVE SeqsUpTo(_, _)
SeqsUpTo(S, m) ==
    IF m = 0 THEN {<<>>}
    ELSE SeqsUpTo(S, m - 1) \cup [1..m -> S]

InitRaise ==
    /\ pc = "start"
    /\ n = 3
    /\ expression \in SeqsUpTo(ClauseSet(1), MaxLen)
    /\ input = 0
    /\ psi = Basis(input)
    /\ circ = <<>>
    /\ raised = "none"
    /\ t = 0
    /\ outcome = -1
    /\ ctrls = <<>>
    /\ clean_aux = <<>>
    /\ target = 0
    /\ calls = <<>>
    /\ NoOtherNotebook
    /\ program = <<>>
    /\ ip = 0

SpecRaise == InitRaise /\ [][Next]_vars

----------------------------------------------------------------------------
(* The first loop of apply_oracle with n >= 3 input variables: one clause,  *)
(* or the example's first clause and then one clause, over any three        *)
(* distinct variables among x0 .. x(n-1).                                   *)

Triples(m) ==
    {v \in (1..m) \X (1..m) \X (1..m) : v[1] # v[2] /\ v[1] # v[3] /\ v[2] # v[3]}

ClausesOver(m) == {[i \in 1..3 |-> s[i] * v[i]] : s \in Signs, v \in Triples(m)}

InitClause ==
    /\ pc = "start"
    /\ n \in 3..MaxVars
    /\ \E c \in ClausesOver(n) : expression \in {<<c>>, <<Example[1], c>>}
    /\ input \in 0..(2^n - 1)
    /\ psi = Basis(input)
    /\ circ = <<>>
    /\ raised = "none"
    /\ t = 0
    /\ outcome = -1
    /\ ctrls = <<>>
    /\ clean_aux = <<>>
    /\ target = 0
    /\ calls = <<>>
    /\ NoOtherNotebook
    /\ program = <<>>
    /\ ip = 0

\* apply_oracle up to the end of its first loop
ComputeClauses ==
    /\ pc = "start"
    /\ circ' = circ \o ComputeLoop(expression)
    /\ pc' = "built"
    /\ UNCHANGED <<n, expression, raised, input, psi, t, outcome, ctrls, clean_aux,
                   target, calls, program, ip, bellVars, tiseVars>>

NextClause == ComputeClauses \/ Execute

SpecClause == InitClause /\ [][NextClause]_vars

----------------------------------------------------------------------------
(* The Grover loop.  psi is kept as the state the simulator reaches on the  *)
(* gates appended so far, so that the state after every number of steps is  *)
(* a state of the model.                                                    *)

GroverExpressions ==
    {Example} \cup [1..1 -> ClauseSet(Len(AllOrders))]
              \cup [1..2 -> ClauseSet(NumOrders)]

InitGroverSpec ==
    /\ pc = "setup"
    /\ n = 3
    /\ expression \in GroverExpressions
    /\ input = 0
    /\ psi = Basis(input)
    /\ circ = <<>>
    /\ raised = "none"
    /\ t = 0
    /\ outcome = -1
    /\ ctrls = <<>>
    /\ clean_aux = <<>>
    /\ target = 0
    /\ calls = <<>>
    /\ NoOtherNotebook
    /\ program = <<>>
    /\ ip = 0

\* init_grover(grover, f_in, f_out)
InitGrover ==
    /\ pc = "setup"
    /\ LET gates == init_grover(f_in, f_out)
       IN /\ circ' = circ \o gates
          /\ psi' = Run(gates, psi)
    /\ pc' = "loop"
    /\ UNCHANGED <<n, expression, raised, input, t, outcome, ctrls, clean_aux, target, calls,
                   program, ip, bellVars, tiseVars>>

\* one pass of the loop body: barrier, apply_oracle, invert_about_avg
GroverIteration ==
    /\ pc = "loop"
    /\ t < MaxT
    /\ LET gates == <<Barrier>> \o apply_oracle(expression).gates
                    \o invert_about_avg(f_in, aux_reg(expression),
                                        NumQubits(expression))
       IN /\ circ' = circ \o gates
          /\ psi' = Run(gates, psi)
    /\ t' = t + 1
    /\ UNCHANGED <<pc, n, expression, raised, input, outcome, ctrls, clean_aux, target, calls,
                   program, ip, bellVars, tiseVars>>

\* grover.barrier(); measure(grover, f_in); execute: one shot reads f_in
MeasureInput ==
    /\ pc = "loop"
    /\ circ' = circ \o <<Barrier>> \o measure(f_in)
    /\ outcome' \in {InOf(b) : b \in Support(psi)}
    /\ pc' = "measured"
    /\ UNCHANGED <<n, expression, raised, input, psi, t, ctrls, clean_aux, target, calls,
                   program, ip, bellVars, tiseVars>>

NextGrover == InitGrover \/ GroverIteration \/ MeasureInput

SpecGrover == InitGroverSpec /\ [][NextGrover]_vars

----------------------------------------------------------------------------
(* The first call of apply_oracle in the Grover loop, on the state that     *)
(* init_grover prepares.                                                    *)

InitPhase ==
    /\ pc = "setup"
    /\ n = 3
    /\ expression \in Expressions
    /\ input = 0
    /\ psi = Basis(input)
    /\ circ = <<>>
    /\ raised = "none"
    /\ t = 0
    /\ outcome = -1
    /\ ctrls = <<>>
    /\ clean_aux = <<>>
    /\ target = 0
    /\ calls = <<>>
    /\ NoOtherNotebook
    /\ program = <<>>
    /\ ip = 0

\* grover.barrier(); apply_oracle(grover, f_in, f_out, aux, n, expression)
CallApplyOracle ==
    /\ pc = "loop"
    /\ LET gates == <<Barrier>> \o apply_oracle(expression).gates
       IN /\ circ' = circ \o gates
          /\ psi' = Run(gates, psi)
    /\ pc' = "marked"
    /\ UNCHANGED <<n, expression, raised, input, t, outcome, ctrls, clean_aux, target,
                   calls, program, ip, bellVars, tiseVars>>

NextPhase == InitGrover \/ CallApplyOracle

SpecPhase == InitPhase /\ [][NextPhase]_vars

----------------------------------------------------------------------------
(* CnX on a basis state: controls are qubits 0..k-1, the target is qubit k, *)
(* the ancillas are the k-2 qubits after it.                                *)

\* what a caller passes as clean_aux with k controls: nothing, or a list of
\* the qubits after the target, of the right length or not
AuxArgs(k) ==
    IF k < 3 THEN {None, <<>>}
    ELSE {None} \cup {[i \in 1..m |-> k + i] : m \in 0..(k - 1)}

InitCnX ==
    /\ pc = "start"
    /\ n = 3
    /\ \E k \in 0..MaxCtrls :
          /\ ctrls = [i \in 1..k |-> i - 1]
          /\ target = k
          /\ clean_aux \in AuxArgs(k)
          /\ input \in 0..(2^(k + 1) - 1)
    /\ psi = Basis(input)
    /\ expression = <<>>
    /\ circ = <<>>
    /\ raised = "none"
    /\ t = 0
    /\ outcome = -1
    /\ calls = <<>>
    /\ NoOtherNotebook
    /\ program = <<>>
    /\ ip = 0

\* qubits of the circuit CnX is called on: controls, target, the ancillas given
CircuitQubits == target + 1 + (IF clean_aux = None THEN 0 ELSE Len(clean_aux))

\* CnX(circ, ctrls, target, clean_aux)
CallCnX ==
    /\ pc = "start"
    /\ LET r == CnX(ctrls, target, clean_aux, CircuitQubits)
       IN /\ circ' = circ \o r.gates
          /\ ctrls' = r.ctrls
          /\ clean_aux' = r.aux
          /\ raised' = r.raised
          /\ calls' = r.calls
          /\ pc' = IF r.raised = "none" THEN "built" ELSE "raised"
    /\ UNCHANGED <<n, expression, input, psi, t, outcome, target, program, ip, bellVars, tiseVars>>

NextCnX == CallCnX \/ Execute

SpecCnX == InitCnX /\ [][NextCnX]_vars

----------------------------------------------------------------------------
(* invert_about_avg on an amplitude vector.  The registers are those of the *)
(* example's Grover circuit; the vector has up to MaxTerms basis states of  *)
(* f_in and f_out with integer amplitudes, the ancillas being 0.            *)

Amplitudes == {-1, 1, 2}

\* the vectors with exactly m basis states among S
Vectors(S, m) ==
    UNION {[T -> Amplitudes] : T \in {U \in SUBSET S : Cardinality(U) = m}}

\* a vector as a simulator state
StateOf(v) == [amp |-> {[b |-> c, a |-> v[c]] : c \in DOMAIN v}, h |-> 0]

InitInvert ==
    /\ pc = "start"
    /\ n = 3
    /\ expression = Example
    /\ \E m \in 1..MaxTerms :
          \E v \in Vectors(0..(2^(n + 1) - 1), m) : psi = StateOf(v)
    /\ input = 0
    /\ circ = <<>>
    /\ raised = "none"
    /\ t = 0
    /\ outcome = -1
    /\ ctrls = <<>>
    /\ clean_aux = <<>>
    /\ target = 0
    /\ calls = <<>>
    /\ NoOtherNotebook
    /\ program = <<>>
    /\ ip = 0

\* invert_about_avg(grover, f_in, aux)
CallInvertAboutAvg ==
    /\ pc = "start"
    /\ circ' = circ \o invert_about_avg(f_in, aux_reg(expression),
                                        NumQubits(expression))
    /\ pc' = "built"
    /\ UNCHANGED <<n, expression, raised, input, psi, t, outcome, ctrls, clean_aux,
                   target, calls, program, ip, bellVars, tiseVars>>

NextInvert == CallInvertAboutAvg \/ Execute

SpecInvert == InitInvert /\ [][NextInvert]_vars

----------------------------------------------------------------------------
(* The two circuits for V = (x2 xor x1 xor x0) and not x2.  The registers   *)
(* are f_in (3 qubits), f_out (1) and aux (1), laid out as f_in, f_out,     *)
(* aux.  A cell is run statement by statement.  With init_superposition     *)
(* the registers start in |0...0>; to follow one input basis state through  *)
(* the gates the cell is also run without it, on registers prepared in      *)
(* that state.                                                              *)

AND(out, a, b) == <<CCX(a, b, out)>>

\* a slip: the X gate is not appended
MutNOT(y) == <<>>

NOT(y) == <<X(y)>>

\* a slip: the first input is left out of the loop
MutXOR(out, inputs) == [i \in 1..(Len(inputs) - 1) |-> CX(inputs[i + 1], out)]

XOR(out, inputs) == [i \in 1..Len(inputs) |-> CX(inputs[i], out)]

init_superposition(fin) == OnEach("h", fin)

\* the first circuit: nothing is undone
CellV ==
    <<"init_superposition", "XOR", "barrier", "NOT", "barrier", "AND",
      "barrier", "measure_out", "measure_aux", "measure_in", "execute">>

\* the rebuilt circuit: NOT and XOR are applied again after AND
CellVUndo ==
    <<"init_superposition", "XOR", "NOT", "AND", "barrier", "NOT", "XOR",
      "barrier", "measure_out", "measure_aux", "measure_in", "execute">>

InitV ==
    /\ pc = "cell"
    /\ n = 3
    /\ \/ program \in {CellV, CellVUndo} /\ input = 0
       \/ program \in {Tail(CellV), Tail(CellVUndo)} /\ input \in 0..(2^n - 1)
    /\ ip = 1
    /\ psi = Basis(input)
    /\ circ = <<>>
    /\ expression = <<>>
    /\ raised = "none"
    /\ t = 0
    /\ outcome = -1
    /\ ctrls = <<>>
    /\ clean_aux = <<>>
    /\ target = 0
    /\ calls = <<>>
    /\ NoOtherNotebook

At(stmt) == pc = "cell" /\ ip <= Len(program) /\ program[ip] = stmt

Append1(gates) ==
    /\ circ' = circ \o gates
    /\ ip' = ip + 1
    /\ UNCHANGED <<pc, n, expression, raised, input, psi, t, outcome, ctrls,
                   clean_aux, target, calls, program, bellVars, tiseVars>>

\* init_superposition(qc, f_in)
CallInitSuperposition == At("init_superposition") /\ Append1(init_superposition(f_in))

\* XOR(qc, aux[0], f_in[0], f_in[1], f_in[2])
CallXOR == At("XOR") /\ Append1(XOR(Aux(0), <<FIn(0), FIn(1), FIn(2)>>))

\* NOT(qc, f_in[2])
CallNOT == At("NOT") /\ Append1(NOT(FIn(2)))

\* AND(qc, f_out[0], aux[0], f_in[2])
CallAND == At("AND") /\ Append1(AND(FOut, Aux(0), FIn(2)))

\* qc.barrier()
CallBarrier == At("barrier") /\ Append1(<<Barrier>>)

\* measure(qc, f_out); measure(qc, aux); measure(qc, f_in)
CallMeasure ==
    \/ At("measure_out") /\ Append1(measure(f_out))
    \/ At("measure_aux") /\ Append1(measure(<<Aux(0)>>))
    \/ At("measure_in") /\ Append1(measure(f_in))

\* execute(qc, backend): one shot; every qubit is measured
ExecuteCell ==
    /\ At("execute")
    /\ psi' = Run(circ, psi)
    /\ outcome' \in Support(psi')
    /\ pc' = "measured"
    /\ UNCHANGED <<n, expression, circ, raised, input, t, ctrls, clean_aux, target, calls,
                   program, ip, bellVars, tiseVars>>

NextV ==
    \/ CallInitSuperposition
    \/ CallXOR
    \/ CallNOT
    \/ CallAND
    \/ CallBarrier
    \/ CallMeasure
    \/ ExecuteCell

SpecV == InitV /\ [][NextV]_vars

----------------------------------------------------------------------------
(* The CHSH notebook: create_cat and the helpers that change the basis of   *)
(* the measurement of two qubits.  A helper returns the gates it appends    *)
(* and the exception it ends with.  qreg is the notebook's global, read by  *)
(* name inside a function when the function has no local of that name.      *)

\* circ.h(q[0]); circ.cx(q[0], q[1])
create_cat == <<H(0), CX(0, 1)>>

XW(q0, q1) ==
    [gates |-> <<H(q0), GateS(q1), H(q1), GateT(q1), H(q1)>>, raised |-> "none"]

\* the first gate is circ.h(qreg[0]): qreg is not a parameter of XV
XV(q0, q1) ==
    IF qreg = None THEN [gates |-> <<>>, raised |-> "NameError"]
    ELSE [gates |-> <<H(qreg[1]), GateS(q1), H(q1), GateTdg(q1), H(q1)>>,
          raised |-> "none"]

ZW(q0, q1) ==
    [gates |-> <<GateS(q1), H(q1), GateT(q1), H(q1)>>, raised |-> "none"]

ZV(q0, q1) ==
    [gates |-> <<GateS(q1), H(q1), GateTdg(q1), H(q1)>>, raised |-> "none"]

\* two distinct qubits of a circuit of nq qubits
QubitPairs(nq) == {p \in (0..(nq - 1)) \X (0..(nq - 1)) : p[1] # p[2]}

\* the circuit has 2 to MaxQubits qubits, the first two in the cat state; the
\* helper is handed two of them, and qreg is not bound or is two of them
InitBell ==
    /\ pc = "start"
    /\ n = 3
    /\ circ = create_cat
    /\ \E nq \in 2..MaxQubits :
          /\ \E p \in QubitPairs(nq) : qbit0 = p[1] /\ qbit1 = p[2]
          /\ qreg \in {None} \cup QubitPairs(nq)
    /\ raised = "none"
    /\ expression = <<>>
    /\ input = 0
    /\ psi = Basis(input)
    /\ t = 0
    /\ outcome = -1
    /\ ctrls = <<>>
    /\ clean_aux = <<>>
    /\ target = 0
    /\ calls = <<>>
    /\ program = <<>>
    /\ ip = 0
    /\ NoTise

\* a call of a helper on circ, qbit0, qbit1
Helper(name, r) ==
    /\ pc = "start"
    /\ circ' = circ \o r.gates
    /\ raised' = r.raised
    /\ pc' = name
    /\ UNCHANGED <<n, expression, input, psi, t, outcome, ctrls, clean_aux, target,
                   calls, program, ip, bellVars, tiseVars>>

CallXW == Helper("XW", XW(qbit0, qbit1))
CallXV == Helper("XV", XV(qbit0, qbit1))
CallZW == Helper("ZW", ZW(qbit0, qbit1))
CallZV == Helper("ZV", ZV(qbit0, qbit1))

NextBell == CallXW \/ CallXV \/ CallZW \/ CallZV

SpecBell == InitBell /\ [][NextBell]_vars

----------------------------------------------------------------------------
(* The particle-in-a-box notebook: the generator evolve and the animation   *)
(* that draws its frames.  A wave is phase * psi for the fixed state psi,   *)
(* so it is kept as its phase; the phase exp(-i * E / eta * t) is kept as   *)
(* the angle E * t / eta, a fraction: for the energies and times of the     *)
(* model, which are whole numbers, two phases are equal exactly when their  *)
(* angles are.                                                              *)

\* np.exp(- 1j * E / eta * t)
Phase(energy, time) == [num |-> energy * time, den |-> eta]

SamePhase(p1, p2) == p1.num * p2.den = p2.num * p1.den

\* evolve(psi, E, timestep, num_step): the locals when the generator is made
\* and has run up to the loop; num_step is a number, as the default 200 is
evolve(energy, timestep, num_step) ==
    [E |-> energy, timestep |-> timestep, num_step |-> num_step,
     t |-> 0, cnt |-> 0]

\* one pass of the loop of evolve, from the test to the yield: the locals
\* after it and the frame yielded, or StopIteration when the loop ends
LoopOfEvolve(g) ==
    IF g.cnt < g.num_step THEN
        LET phase == Phase(g.E, g.t)
            cnt1 == g.cnt + 1
            t1 == g.t + g.timestep
        IN [locals |-> [g EXCEPT !.cnt = cnt1, !.t = t1],
            yielded |-> [t |-> t1, wave |-> phase],
            raised |-> "none"]
    ELSE [locals |-> g, yielded |-> <<>>, raised |-> "StopIteration"]

Energies == {1, 2, 3}
Timesteps == {1, 5}

\* evolution = evolve(psi, E, ...)
InitEvolve ==
    /\ pc = "animate"
    /\ n = 3
    /\ \E energy \in Energies, timestep \in Timesteps, num_step \in 0..MaxSteps :
          evolution = evolve(energy, timestep, num_step)
    /\ data = <<>>
    /\ grid = <<>>
    /\ hamiltonian = <<>>
    /\ raised = "none"
    /\ circ = <<>>
    /\ expression = <<>>
    /\ input = 0
    /\ psi = Basis(input)
    /\ t = 0
    /\ outcome = -1
    /\ ctrls = <<>>
    /\ clean_aux = <<>>
    /\ target = 0
    /\ calls = <<>>
    /\ program = <<>>
    /\ ip = 0
    /\ NoBell

\* FuncAnimation takes the next frame of evolution and hands it to run(data)
Frame ==
    /\ pc = "animate"
    /\ LoopOfEvolve(evolution).raised = "none"
    /\ evolution' = LoopOfEvolve(evolution).locals
    /\ data' = LoopOfEvolve(evolution).yielded
    /\ UNCHANGED <<pc, n, expression, circ, raised, input, psi, t, outcome, ctrls,
                   clean_aux, target, calls, program, ip, bellVars, grid,
                   hamiltonian>>

\* the generator is exhausted: the animation ends (repeat=False)
Exhausted ==
    /\ pc = "animate"
    /\ LoopOfEvolve(evolution).raised = "StopIteration"
    /\ pc' = "shown"
    /\ UNCHANGED <<n, expression, circ, raised, input, psi, t, outcome, ctrls,
                   clean_aux, target, calls, program, ip, bellVars, tiseVars>>

NextEvolve == Frame \/ Exhausted

SpecEvolve == InitEvolve /\ [][NextEvolve]_vars

----------------------------------------------------------------------------
(* The particle-in-a-box notebook: the cells that set the grid and the      *)
(* discretized Hamiltonian.  Matrices are sequences of rows.  The hopping   *)
(* term t = -eta**2 / (2 * m * a**2) is a negative number; the model draws  *)
(* it from whole numbers.  V is the notebook's 0 * x or one of two          *)
(* potentials written in its place.                                         *)

\* X = np.linspace(0, L, num=N) - L/2: N points, evenly spaced, symmetric
\* about 0 (in units of half the spacing)
GridX(N, i) == 2 * (i - 1) - (N - 1)

\* def V(x)
V(name, x) ==
    IF name = "zero" THEN 0 * x
    ELSE IF name = "linear" THEN x
    ELSE x * x

\* eps = -2*t + q * V(X)
Eps(N, hop, name) == [i \in 1..N |-> -2 * hop + charge * V(name, GridX(N, i))]

\* np.eye(N, k=k): ones on the k-th diagonal
Eye(N, k) == [i \in 1..N |-> [j \in 1..N |-> IF j - i = k THEN 1 ELSE 0]]

\* number * matrix
Scaled(c, M) == [i \in DOMAIN M |-> [j \in DOMAIN M[i] |-> c * M[i][j]]]

\* vector * matrix: numpy lines the vector up with the last axis
Broadcast(v, M) == [i \in DOMAIN M |-> [j \in DOMAIN M[i] |-> v[j] * M[i][j]]]

\* matrix + matrix
Plus(A, B) == [i \in DOMAIN A |-> [j \in DOMAIN A[i] |-> A[i][j] + B[i][j]]]

\* a slip: both off-diagonal terms on the upper diagonal
MutDiscretizedHamiltonian(N, hop, eps) ==
    Plus(Plus(Scaled(hop, Eye(N, 1)), Broadcast(eps, Eye(N, 0))),
         Scaled(hop, Eye(N, 1)))

\* H = t*np.eye(N, k=-1) + eps*np.eye(N) + t*np.eye(N, k=1)
DiscretizedHamiltonian(N, hop, eps) ==
    Plus(Plus(Scaled(hop, Eye(N, -1)), Broadcast(eps, Eye(N, 0))),
         Scaled(hop, Eye(N, 1)))

Hoppings == {-4, -3, -2, -1}
Potentials == {"zero", "linear", "quadratic"}

\* the cell that sets N, L, V, eta, m, q has been run
InitH ==
    /\ pc = "parameters"
    /\ n = 3
    /\ \E N \in 2..MaxN, name \in Potentials :
          grid = [N |-> N, V |-> name, t |-> 0, eps |-> <<>>]
    /\ hamiltonian = <<>>
    /\ evolution = <<>>
    /\ data = <<>>
    /\ raised = "none"
    /\ circ = <<>>
    /\ expression = <<>>
    /\ input = 0
    /\ psi = Basis(input)
    /\ t = 0
    /\ outcome = -1
    /\ ctrls = <<>>
    /\ clean_aux = <<>>
    /\ target = 0
    /\ calls = <<>>
    /\ program = <<>>
    /\ ip = 0
    /\ NoBell

\* the cell X = ...; a = ...; t = ...; eps = ...
CellGrid ==
    /\ pc = "parameters"
    /\ \E hop \in Hoppings :
          grid' = [grid EXCEPT !.t = hop, !.eps = Eps(grid.N, hop, grid.V)]
    /\ pc' = "grid"
    /\ UNCHANGED <<n, expression, circ, raised, input, psi, t, outcome, ctrls,
                   clean_aux, target, calls, program, ip, bellVars,
                   hamiltonian, evolution, data>>

\* the cell H = ...
CellH ==
    /\ pc = "grid"
    /\ hamiltonian' = DiscretizedHamiltonian(grid.N, grid.t, grid.eps)
    /\ pc' = "H"
    /\ UNCHANGED <<n, expression, circ, raised, input, psi, t, outcome, ctrls,
                   clean_aux, target, calls, program, ip, bellVars,
                   grid, evolution, data>>

NextH == CellGrid \/ CellH

SpecH == InitH /\ [][NextH]_vars

----------------------------------------------------------------------------
(* Properties of apply_oracle on basis states *)

\* the basis state of a simulator state that is a basis state
Final == CHOOSE b \in Support(psi) : TRUE
IsBasisState == Cardinality(Support(psi)) = 1

LitTrue(literal, x) ==
    IF literal > 0 THEN Bit(x, literal - 1) = 1 ELSE Bit(x, -literal - 1) = 0
TrueLiterals(clause, x) == {i \in DOMAIN clause : LitTrue(clause[i], x)}
\* exactly one literal of every clause is true
OneInThree(expr, x) == \A k \in DOMAIN expr : Cardinality(TrueLiterals(expr[k], x)) = 1

Xor(a, b) == (a /\ ~b) \/ (~a /\ b)
\* g_k = l1 xor l2 xor l3 xor (l1 and l2 and l3)
G(clause, x) ==
    LET l1 == LitTrue(clause[1], x)
        l2 == LitTrue(clause[2], x)
        l3 == LitTrue(clause[3], x)
    IN Xor(Xor(Xor(l1, l2), l3), l1 /\ l2 /\ l3)

Flipped == OutOf(Final) # OutOf(input)

\* C1: for every expression of 1 to 3 clauses over x0, x1, x2 and every basis
\* state of f_in and f_out with the ancillas 0, apply_oracle flips f_out[0]
\* exactly when every clause has exactly one true literal, which is when every
\* g_k is 1.
OracleFlipsIffOneInThree ==
    pc = "done" =>
        /\ IsBasisState
        /\ Flipped <=> OneInThree(expression, InOf(input))
        /\ Flipped <=> \A k \in DOMAIN expression : G(expression[k], InOf(input))

OracleFlipsWitness ==
    /\ pc = "done"
    /\ Len(expression) = 3
    /\ OneInThree(expression, InOf(input))
    /\ OutOf(input) = 1
    /\ OutOf(Final) = 0

\* C2: apply_oracle leaves every qubit of f_in with its value and returns the
\* ancillas aux[0..num_clauses-1] and the scratch qubit aux[num_clauses] to 0;
\* only f_out[0] may differ after the call.
OracleFrame ==
    pc = "done" =>
        /\ IsBasisState
        /\ InOf(Final) = InOf(input)
        /\ AuxOf(Final) = 0

\* a clause with a negated literal whose g_k is 1, in an expression that is
\* not satisfied: aux[k] and f_in were changed on the way and f_out was not
OracleFrameWitness ==
    /\ pc = "done"
    /\ Len(expression) = 2
    /\ \E i \in 1..3 : expression[1][i] < 0
    /\ G(expression[1], InOf(input))
    /\ ~G(expression[2], InOf(input))
    /\ Final = input

\* C4: for the example expression the assignment x0=1, x1=0, x2=1 is the only
\* one of the 8 for which apply_oracle flips f_out[0].
ExampleUniqueSolution ==
    (pc = "done" /\ expression = Example) => (Flipped <=> InOf(input) = 5)

ExampleSolutionWitness ==
    /\ pc = "done"
    /\ expression = Example
    /\ InOf(input) = 5
    /\ Flipped

\* C10: apply_oracle raises ValueError exactly for the expressions whose number
\* of clauses is not 1, 2 or 3: the empty expression and those with more than
\* 3 clauses.
RaisesIffUnsupported ==
    pc # "start" =>
        /\ (raised = "ValueError") <=> (Len(expression) \notin {1, 2, 3})
        /\ raised \in {"none", "ValueError"}

RaisesWitness ==
    /\ pc = "raised"
    /\ raised = "ValueError"
    /\ Len(expression) = 0

RaisesLongWitness ==
    /\ pc = "raised"
    /\ raised = "ValueError"
    /\ Len(expression) > 3

\* C18: for n >= 3 input variables and a clause of three literals over any
\* three distinct variables, the clause block leaves aux[k] = 1 exactly when
\* exactly one literal of the clause is true.
ClauseBlockMarksOneTrue ==
    pc = "done" =>
        /\ IsBasisState
        /\ \A k \in DOMAIN expression :
              Bit(Final, Aux(k - 1)) = 1
                  <=> Cardinality(TrueLiterals(expression[k], input)) = 1

\* the same for the clauses over x0, x1, x2
ClauseBlockMarksOneTrueOfThree ==
    (\A k \in DOMAIN expression : \A i \in 1..3 :
         expression[k][i] \in {-3, -2, -1, 1, 2, 3})
        => ClauseBlockMarksOneTrue

----------------------------------------------------------------------------
(* Properties of the Grover loop *)

RECURSIVE SumOver(_, _)
SumOver(S, f) ==
    IF S = {} THEN 0
    ELSE LET x == CHOOSE y \in S : TRUE IN f[x] + SumOver(S \ {x}, f)

\* 2^h times the probability that f_in is measured as x
Weight(st, x) ==
    LET S == {b \in Support(st) : InOf(b) = x}
    IN SumOver(S, [b \in S |-> AmpAt(st.amp, b) * AmpAt(st.amp, b)])
Total(st) ==
    SumOver(Support(st), [b \in Support(st) |-> AmpAt(st.amp, b) * AmpAt(st.amp, b)])

\* C3: in the Grover loop, after init_grover and after every iteration, every
\* basis state with non-zero amplitude has all ancillas 0.
GroverAncillasClean ==
    pc \in {"loop", "measured"} => \A b \in Support(psi) : AuxOf(b) = 0

GroverAncillasWitness ==
    /\ pc = "loop"
    /\ t = MaxT
    /\ Len(expression) = 2
    /\ Cardinality(Support(psi)) > 1

\* C5: after init_grover and T=2 iterations for the example expression the
\* outcome 101 has probability greater than the other 7 outcomes together.
GroverFinds101 ==
    (expression = Example /\ t = 2 /\ pc \in {"loop", "measured"}) =>
        2 * Weight(psi, 5) > Total(psi)

GroverFinds101Witness ==
    /\ expression = Example
    /\ t = 2
    /\ pc = "measured"
    /\ outcome = 5

\* C6: for the example expression the probability of measuring 101 rises from
\* T=1 to T=2 and is strictly lower after T=3 than after T=2.
GroverOverrotation ==
    [][(expression = Example /\ pc = "loop" /\ pc' = "loop" /\ t' = t + 1) =>
          /\ t = 1 => Weight(psi', 5) * Total(psi) > Weight(psi, 5) * Total(psi')
          /\ t = 2 => Weight(psi', 5) * Total(psi) < Weight(psi, 5) * Total(psi')]_vars

GroverOverrotationWitness ==
    /\ expression = Example
    /\ pc = "loop"
    /\ t = 3
    /\ 2 * Weight(psi, 5) < Total(psi)

\* C13: on the state init_grover prepares (f_out in |->, the inputs in uniform
\* superposition, the ancillas 0) one call of apply_oracle negates the
\* amplitude of exactly the input assignments with one true literal in every
\* clause and changes nothing else: the other amplitudes, f_out and the
\* ancillas are as before.
OracleInvertsPhase ==
    [][(pc = "loop" /\ pc' = "marked") =>
          /\ psi'.h = psi.h
          /\ Support(psi') = Support(psi)
          /\ \A e \in psi.amp :
                AmpAt(psi'.amp, e.b) =
                    IF OneInThree(expression, InOf(e.b)) THEN -e.a ELSE e.a]_vars

\* a 3-clause expression with a solution: its sign is inverted, others are not
OracleInvertsPhaseWitness ==
    /\ pc = "marked"
    /\ Len(expression) = 3
    /\ \E e \in psi.amp : OutOf(e.b) = 0 /\ e.a < 0
                            /\ OneInThree(expression, InOf(e.b))
    /\ \E e \in psi.amp : OutOf(e.b) = 0 /\ e.a > 0
    /\ \A e \in psi.amp : AuxOf(e.b) = 0

----------------------------------------------------------------------------
(* Properties of CnX *)

\* the k controls are qubits 0..target-1
CtrlsOf(b) == b % (2^target)
AllCtrlsSet(b) == CtrlsOf(b) = 2^target - 1

\* C9: for k >= 1 controls in a list and, for k >= 3, a list of k-2 ancillas
\* that are 0, the circuit of CnX flips the target exactly when all k controls
\* are 1, leaves the controls unchanged and returns every ancilla to 0.
CnXIsMultiControlledNot ==
    pc = "done" =>
        /\ IsBasisState
        /\ CtrlsOf(Final) = CtrlsOf(input)
        /\ (Bit(Final, target) # Bit(input, target)) <=> AllCtrlsSet(input)
        /\ Final \div (2^(target + 1)) = 0

CnXWitness ==
    /\ pc = "done"
    /\ target = MaxCtrls
    /\ AllCtrlsSet(input)
    /\ Bit(input, target) = 0
    /\ Bit(Final, target) = 1

\* the qubits the gates of a circuit act on
QubitsOf(gates) == UNION {{gates[i].q[j] : j \in DOMAIN gates[i].q} : i \in DOMAIN gates}
Toffolis(gates) == {i \in DOMAIN gates : gates[i].op = "ccx"}

\* a call of CnX with 3 or more controls
CallOfThreeOrMore == pc = "start" /\ pc' # "start" /\ Len(ctrls) >= 3

\* the call ends without an exception, with the full ladder on the controls,
\* the target and a register of len(ctrls)-2 qubits added to the circuit
DecomposesWithNewRegister ==
    /\ raised' = "none"
    /\ Cardinality(Toffolis(circ')) = 2 * Len(ctrls) - 3
    /\ QubitsOf(circ') =
          0..target \cup CircuitQubits..(CircuitQubits + Len(ctrls) - 3)

\* a list of the wrong length is replaced by a new register
WrongLengthCreatesRegister ==
    [][(CallOfThreeOrMore /\ clean_aux # None
          /\ Len(clean_aux) # Len(ctrls) - 2) => DecomposesWithNewRegister]_vars

\* C11: a call of CnX with 3 or more controls and clean_aux None or of a length
\* other than len(ctrls)-2 creates a register of len(ctrls)-2 ancillas, adds it
\* to the circuit and completes the decomposition with it, raising nothing.
CnXCreatesAncillas ==
    [][(CallOfThreeOrMore
          /\ (clean_aux = None \/ Len(clean_aux) # Len(ctrls) - 2)) =>
              DecomposesWithNewRegister]_vars

\* a call with k >= 2 controls and a list of k-2 ancillas has returned
CalledWithRightAncillas ==
    pc # "start" /\ target >= 2 /\ calls[1] = <<target, target - 2>>

\* C19: with k >= 2 controls and a list of k-2 ancillas CnX makes k-2 nested
\* calls, each with one control and one ancilla fewer than its caller, and
\* appends 2k-3 Toffolis and nothing else: a compute and an uncompute Toffoli
\* per ancilla around one Toffoli onto the target.
CnXRecursionIsLinear ==
    CalledWithRightAncillas =>
        /\ raised = "none"
        /\ Len(calls) = target - 1
        /\ \A i \in 1..Len(calls) : calls[i] = <<target - i + 1, target - i - 1>>
        /\ Len(circ) = 2 * target - 3
        /\ Cardinality(Toffolis(circ)) = 2 * target - 3
        /\ circ[target - 1].q[3] = target
        /\ \A i \in 1..(target - 2) :
              /\ circ[i] = circ[2 * target - 2 - i]
              /\ circ[i].q[3] > target
              /\ \A j \in 1..(target - 2) : circ[i].q[3] = circ[j].q[3] => i = j

CnXRecursionWitness ==
    /\ pc = "built"
    /\ target = MaxCtrls
    /\ calls[1] = <<MaxCtrls, MaxCtrls - 2>>
    /\ Len(calls) = MaxCtrls - 1
    /\ Len(circ) = 2 * MaxCtrls - 3

\* C20: a call of CnX with 3 or more controls leaves the caller's ctrls list
\* and clean_aux list with the same elements in the same order.
CnXKeepsItsLists ==
    [][CallOfThreeOrMore => ctrls' = ctrls /\ clean_aux' = clean_aux]_vars

\* C21: a call of CnX with no control qubits fails its assertion before any
\* gate is appended: the circuit and the lists are as before the call.
CnXRejectsNoControls ==
    [][(pc = "start" /\ pc' # "start" /\ Len(ctrls) = 0) =>
          /\ raised' = "AssertionError"
          /\ pc' = "raised"
          /\ circ' = circ
          /\ ctrls' = ctrls
          /\ clean_aux' = clean_aux]_vars

CnXRejectsNoControlsWitness ==
    /\ pc = "raised"
    /\ raised = "AssertionError"
    /\ ctrls = <<>>
    /\ calls = <<<<0, 0>>>>
    /\ circ = <<>>

----------------------------------------------------------------------------
(* Properties of invert_about_avg *)

\* the value of the qubits outside f_in
OutsideOf(b) == b \div (2^n)

\* the sum of the amplitudes of the 2^n input states with the outside value o
SumAt(st, o) ==
    LET S == 0..(2^n - 1)
    IN SumOver(S, [x \in S |-> AmpAt(st.amp, x + (2^n) * o)])

\* after = s * (2 * mean(before) - before) for the sign s, separately for
\* every value of the outside qubits, the ancillas staying 0; an amplitude
\* is a / sqrt(2)^h
InvertedAboutMeanWith(s, before, after) ==
    LET d == after.h - before.h
        up == IF d >= 0 THEN 2^(d \div 2) ELSE 1
        down == IF d < 0 THEN 2^((-d) \div 2) ELSE 1
    IN /\ d % 2 = 0
       /\ Support(after) \subseteq 0..(2^(n + 1) - 1)
       /\ \A b \in 0..(2^(n + 1) - 1) :
             (2^n) * AmpAt(after.amp, b) * down =
                 s * (2 * SumAt(before, OutsideOf(b))
                        - (2^n) * AmpAt(before.amp, b)) * up

\* C12: invert_about_avg on the 3 input qubits takes every amplitude vector a
\* over the 8 input basis states to the vector with entries 2*mean(a) - a_i,
\* up to one sign common to all entries, separately for each value of the
\* qubits outside bits.
InvertsAboutMean ==
    [][(pc = "built" /\ pc' = "done") =>
          \E s \in {1, -1} : InvertedAboutMeanWith(s, psi, psi')]_vars

\* a vector on both values of f_out has been inverted: all 16 states are reached
InvertsAboutMeanWitness ==
    /\ pc = "done"
    /\ Cardinality(Support(psi)) = 2^(n + 1)
    /\ \E e \in psi.amp : e.a < 0
    /\ \E e \in psi.amp : e.a > 0

----------------------------------------------------------------------------
(* Properties of the circuits for V *)

Undoes == program \in {CellVUndo, Tail(CellVUndo)}
OneInput == program \in {Tail(CellV), Tail(CellVUndo)}

\* C7: in the rebuilt circuit, for each of the 8 input basis states the
\* measured ancilla is 0, the measured input register is the input, and f_out
\* is 1 exactly when x2x1x0 is 001 or 010.
VUndoCorrect ==
    (pc = "measured" /\ Undoes) =>
        /\ AuxOf(outcome) = 0
        /\ OneInput => InOf(outcome) = input
        /\ OutOf(outcome) = 1 <=> InOf(outcome) \in {1, 2}

VUndoWitness ==
    /\ pc = "measured"
    /\ program = Tail(CellVUndo)
    /\ input = 2
    /\ OutOf(outcome) = 1

\* C8: in the first circuit, which undoes nothing, f_out is measured 1 exactly
\* in the runs whose measured input register reads 101 or 110, and in those
\* runs the ancilla is 1, so the ancilla is not 0 in every run.
VNoUndoOutcomes ==
    (pc = "measured" /\ ~Undoes) =>
        /\ OutOf(outcome) = 1 <=> InOf(outcome) \in {5, 6}
        /\ OutOf(outcome) = 1 => AuxOf(outcome) = 1

VNoUndoWitness ==
    /\ pc = "measured"
    /\ program = CellV
    /\ InOf(outcome) = 6
    /\ OutOf(outcome) = 1
    /\ AuxOf(outcome) = 1

----------------------------------------------------------------------------
(* Properties of the CHSH helpers *)

HelperReturned == pc \in {"XW", "XV", "ZW", "ZV"}

\* the gates the helper appended after those of create_cat
Appended == SubSeq(circ, Len(create_cat) + 1, Len(circ))

\* the gates of a circuit on the qubit q, by name, in the order appended
OpsOn(gates, q) ==
    LET on == SelectSeq(gates, LAMBDA g : g.q = <<q>>)
    IN [i \in 1..Len(on) |-> on[i].op]

\* C14: every gate XW, XV, ZW or ZV appends acts on one of the two qubits
\* handed to it, whatever the notebook's global qreg is, and the call needs
\* no global to be bound.
HelpersUseOnlyArguments ==
    HelperReturned =>
        /\ raised = "none"
        /\ QubitsOf(Appended) \subseteq {qbit0, qbit1}

\* C15: on the second qubit XW and ZW append S, H, T, H and XV and ZV append
\* S, H, T-dagger, H; on the first qubit XW and XV append one H and ZW and ZV
\* append nothing; no other gate is appended.
HelpersAppendDocumentedGates ==
    HelperReturned =>
        /\ OpsOn(Appended, qbit1) =
              IF pc \in {"XW", "ZW"} THEN <<"s", "h", "t", "h">>
              ELSE <<"s", "h", "tdg", "h">>
        /\ OpsOn(Appended, qbit0) =
              IF pc \in {"XW", "XV"} THEN <<"h">> ELSE <<>>
        /\ Len(Appended) = IF pc \in {"XW", "XV"} THEN 5 ELSE 4

----------------------------------------------------------------------------
(* Properties of evolve *)

\* C16: every frame (t, wave) that evolve yields is the state at the time it
\* is yielded with: wave = psi * exp(-i * E * t / eta) for that t, from the
\* first frame to the last.
FramesAreAtYieldedTime ==
    data # <<>> => SamePhase(data.wave, Phase(evolution.E, data.t))

----------------------------------------------------------------------------
(* Properties of the discretized Hamiltonian *)

Abs(x) == IF x < 0 THEN -x ELSE x

\* C17: H is an N x N symmetric tridiagonal matrix: H[i][j] is
\* eps[i] = -2t + q*V(X[i]) when i = j, t when |i - j| = 1, and 0 otherwise.
HamiltonianIsTridiagonal ==
    pc = "H" =>
        /\ DOMAIN hamiltonian = 1..grid.N
        /\ \A i \in 1..grid.N :
              /\ DOMAIN hamiltonian[i] = 1..grid.N
              /\ grid.eps[i] = -2 * grid.t + charge * V(grid.V, GridX(grid.N, i))
              /\ \A j \in 1..grid.N :
                    /\ hamiltonian[i][j] = hamiltonian[j][i]
                    /\ hamiltonian[i][j] =
                          IF i = j THEN grid.eps[i]
                          ELSE IF Abs(i - j) = 1 THEN grid.t
                          ELSE 0

\* a grid whose potential is not constant: the diagonal entries differ
HamiltonianWitness ==
    /\ pc = "H"
    /\ grid.N = MaxN
    /\ hamiltonian[1][1] # hamiltonian[2][2]
    /\ hamiltonian[2][1] = grid.t
    /\ hamiltonian[1][MaxN] = 0

====
